---- MODULE Spec2Model ----
(***************************************************************************)
(* Model of src/main.py: the iVolatility /equities/eod/ivs refresh job.    *)
(* main() validates its settings, resolves the symbol list, and runs       *)
(* fetch_and_insert_symbol once per symbol record on a ThreadPoolExecutor, *)
(* collecting the returned row counts in completion order.                 *)
(***************************************************************************)
EXTENDS Integers, Sequences, FiniteSets, Bags, TLC

(* ------------------------------ bounds --------------------------------- *)
\* Largest number of rows one provider response carries.
MaxRows == 5
\* Number of rows that stands for the 5000 rows of one chunk, so that a
\* response of MaxRows rows spans several chunks.
ChunkRows == 2

(* ------------------------- program constants --------------------------- *)
\* chunk_size = 5000, in the scaled unit
chunk_size == ChunkRows
\* the modulus of the generated record_no
IdModulus == 2147483647
\* default of MAX_WORKERS is 12; the pool sizes explored are PoolSizes
PoolSizes == {1, 2}
\* DATE_FROM / DATE_TO: the inclusive window, as day numbers
date_from == 1
date_to == 2

NoValue == "None"

(* ----------------------------- inputs ---------------------------------- *)
\* symbol_df.to_dict("records"): every record of one query result has the
\* same keys, so a list either has a region column or has none; in a list
\* with a region column a symbol without region carries a null value
ItemA == [symbol |-> "AAPL", region |-> "USA"]
ItemM == [symbol |-> "MSFT", region |-> "EU"]
ItemX == [symbol |-> "XXXX"]
ItemN == [symbol |-> "XXXX", region |-> NoValue]
SymbolLists ==
    { <<ItemA>>, <<ItemX>>, <<ItemA, ItemM>>, <<ItemA, ItemA>>, <<ItemM, ItemN>> }

\* rows already in the target table when the job starts
StaleRow(s, d, n) == [symbol |-> s, region |-> "OLD", date |-> d, record_no |-> n]
StaleStore ==
    SetToBag({ StaleRow("AAPL", 0, 900), StaleRow("AAPL", 1, 901),
               StaleRow("AAPL", 2, 902), StaleRow("AAPL", 3, 903),
               StaleRow("MSFT", 2, 904), StaleRow("IBM", 1, 905) })
InitialStores == { EmptyBag, StaleStore }

\* values hash(uuid.uuid4()) takes, as two sample streams: one whose images
\* under abs(.) % IdModulus are pairwise distinct, one whose images collide
UuidStreams == {"spread", "clash"}
UuidHash(stream, k) ==
    IF stream = "spread"
    THEN (IF k % 2 = 0 THEN 0 - (10 + k) ELSE 10 + k)
    ELSE (IF k % 3 = 0 THEN IdModulus ELSE IF k % 3 = 1 THEN 0 - 7 ELSE 7)

\* what getMarketData can hand back: it raises, or returns an empty frame,
\* a frame of n rows with or without a record_no column, or an object that
\* is no frame at all
Responses ==
    { [kind |-> "error", n |-> 0, hasId |-> FALSE],
      [kind |-> "empty", n |-> 0, hasId |-> FALSE],
      [kind |-> "notframe", n |-> 0, hasId |-> FALSE] }
    \cup { [kind |-> "rows", n |-> n, hasId |-> h] : n \in 1..MaxRows, h \in BOOLEAN }

(* ------------------------------ state ---------------------------------- *)
VARIABLES
    pc,                \* where main() is
    exit_status,       \* "running", "success" (main returned), "failure" (sys.exit(1))
    exit_log,          \* the message main() logs when it stops before submitting
    api_key, db_server, db_name,   \* environment
    max_workers,
    default_region,
    symbol_records,
    store0,            \* the target table as it was when the job started
    store,             \* the target table: a bag of rows
    task,              \* one record per submitted future
    total_inserted,
    perSymbolResults   \* the per-symbol outcomes, in completion order

vars == << pc, exit_status, exit_log, api_key, db_server, db_name, max_workers,
           default_region, symbol_records, store0, store, task, total_inserted,
           perSymbolResults >>

\* what no step of the job changes
env == << api_key, db_server, db_name, max_workers, store0 >>

(* ----------------------------- helpers --------------------------------- *)
Abs(x) == IF x < 0 THEN 0 - x ELSE x

Min(a, b) == IF a < b THEN a ELSE b

Range(s) == { s[k] : k \in DOMAIN s }

\* the rows of a sequence as a bag
BagOfSeq(s) ==
    [ r \in Range(s) |-> Cardinality({ k \in DOMAIN s : s[k] = r }) ]

\* number of rows of bag b that satisfy P
RECURSIVE BagCount(_, _)
BagCount(b, rows) ==
    IF rows = {} THEN 0
    ELSE LET r == CHOOSE x \in rows : TRUE
         IN  b[r] + BagCount(b, rows \ {r})

InWindow(r) == date_from <= r.date /\ r.date <= date_to

\* rows of the table with this symbol inside the window
WindowRows(b, sym) == { r \in DOMAIN b : r.symbol = sym /\ InWindow(r) }
WindowCount(b, sym) == BagCount(b, WindowRows(b, sym))

Tasks == DOMAIN task

Sym(i) == symbol_records[i].symbol

\* record.get("region", default_region)
Reg(i) ==
    IF "region" \in DOMAIN symbol_records[i]
    THEN symbol_records[i].region ELSE default_region

(* ----------------------- the pure parts of a task ---------------------- *)
\* identifiers the provider supplies when the frame has a record_no column
SymBase(sym) ==
    CASE sym = "AAPL" -> 100 [] sym = "MSFT" -> 200 [] OTHER -> 300

\* the frame getMarketData returns for a "rows" response: row k of n, with
\* the provider's own symbol and region values and a date inside the
\* requested range
RawRow(resp, sym, k) ==
    [symbol |-> "raw", region |-> "raw",
     date |-> date_from + ((k - 1) % (date_to - date_from + 1)),
     record_no |-> IF resp.hasId THEN SymBase(sym) + k ELSE NoValue]

RawFrame(resp, sym) == [ k \in 1..resp.n |-> RawRow(resp, sym, k) ]

\* abs(hash(uuid.uuid4())) % 2147483647
GeneratedId(h) == Abs(h) % IdModulus

\* lines 207-228: force symbol and region, generate record_no when the
\* frame has no such column
Reconcile(resp, sym, reg, uuids) ==
    LET raw == RawFrame(resp, sym)
    IN  [ k \in 1..resp.n |->
            [symbol |-> sym, region |-> reg, date |-> raw[k].date,
             record_no |-> IF resp.hasId THEN raw[k].record_no
                           ELSE GeneratedId(UuidHash(uuids, k))] ]

\* a slice that starts one row early, so consecutive chunks overlap
Chunk_Overlap(df, start_idx) ==
    SubSeq(df, IF start_idx = 0 THEN 1 ELSE start_idx,
           Min(start_idx + chunk_size, Len(df)))

\* data_df.iloc[start_idx : start_idx + chunk_size], start_idx counted from 0
Chunk(df, start_idx) ==
    SubSeq(df, start_idx + 1, Min(start_idx + chunk_size, Len(df)))

\* a DELETE whose predicate forgets the symbol
DeleteMatches_AnySymbol(r, sym) == r.date >= date_from /\ r.date <= date_to

\* a DELETE whose date bounds are exclusive
DeleteMatches_Exclusive(r, sym) == r.symbol = sym /\ r.date > date_from /\ r.date < date_to

\* DELETE ... WHERE symbol = ? AND date >= ? AND date <= ?
DeleteMatches(r, sym) == r.symbol = sym /\ r.date >= date_from /\ r.date <= date_to

\* a DELETE that removes nothing
AfterDelete_Nothing(b, sym) == b

AfterDelete(b, sym) ==
    LET keep == { r \in DOMAIN b : ~DeleteMatches(r, sym) }
    IN  [ r \in keep |-> b[r] ]

\* executemany + commit of one chunk
AfterInsert(b, rows) == b (+) BagOfSeq(rows)

(* ------------------------------- Init ---------------------------------- *)
NoResponse == [kind |-> "none", n |-> 0, hasId |-> FALSE]

\* a future before its function runs; writes lists the chunks the task has
\* committed, in order
NewTask ==
    [pc |-> "queued", worker |-> 0, resp |-> NoResponse, data_df |-> << >>,
     start_idx |-> 0, inserted_count |-> 0, writes |-> << >>, ret |-> 0,
     log |-> ""]

Init ==
    /\ pc = "start"
    /\ exit_status = "running"
    /\ exit_log = ""
    /\ api_key \in {"", "key"}
    /\ db_server \in {"", "server"}
    /\ db_name \in {"", "db"}
    /\ max_workers \in PoolSizes
    /\ default_region = NoValue
    /\ symbol_records = << >>
    /\ store0 \in InitialStores
    /\ store = store0
    /\ task = << >>
    /\ total_inserted = 0
    /\ perSymbolResults = << >>

(* --------------------------- main(): setup ----------------------------- *)
\* logging.error(...) followed by sys.exit(1)
Exit1(message) ==
    /\ pc' = "exited"
    /\ exit_status' = "failure"
    /\ exit_log' = message

\* checks that let a missing DB_NAME through
BasicChecks_NoDbName ==
    /\ pc = "start"
    /\ IF api_key = ""
       THEN Exit1("IVOL_API_KEY is not set")
       ELSE IF db_server = ""
       THEN Exit1("DB_SERVER or DB_NAME not set")
       ELSE pc' = "configure" /\ UNCHANGED << exit_status, exit_log >>
    /\ UNCHANGED << env, default_region, symbol_records, store, task,
                    total_inserted, perSymbolResults >>

\* lines 49-58
BasicChecks ==
    /\ pc = "start"
    /\ IF api_key = ""
       THEN Exit1("IVOL_API_KEY is not set")
       ELSE IF db_server = "" \/ db_name = ""
       THEN Exit1("DB_SERVER or DB_NAME not set")
       ELSE pc' = "configure" /\ UNCHANGED << exit_status, exit_log >>
    /\ UNCHANGED << env, default_region, symbol_records, store, task,
                    total_inserted, perSymbolResults >>

\* lines 63-70
ConfigureApi ==
    /\ pc = "configure"
    /\ \E ok \in BOOLEAN :
         IF ok THEN pc' = "token" /\ UNCHANGED << exit_status, exit_log >>
         ELSE Exit1("Failed to configure iVol API")
    /\ UNCHANGED << env, default_region, symbol_records, store, task,
                    total_inserted, perSymbolResults >>

\* lines 72-81
AcquireToken ==
    /\ pc = "token"
    /\ \E ok \in BOOLEAN :
         IF ok THEN pc' = "config" /\ UNCHANGED << exit_status, exit_log >>
         ELSE Exit1("Failed to obtain Azure SQL token")
    /\ UNCHANGED << env, default_region, symbol_records, store, task,
                    total_inserted, perSymbolResults >>

\* lines 104-117
QueryConfig ==
    /\ pc = "config"
    /\ \E outcome \in {"error", "empty", "row"} :
         IF outcome = "row"
         THEN /\ pc' = "symbols"
              /\ default_region' = "USA"
              /\ UNCHANGED << exit_status, exit_log >>
         ELSE /\ Exit1(IF outcome = "error" THEN "Failed to query config"
                       ELSE "No config row found")
              /\ UNCHANGED default_region
    /\ UNCHANGED << env, symbol_records, store, task, total_inserted,
                    perSymbolResults >>

\* lines 122-140
QuerySymbols ==
    /\ pc = "symbols"
    /\ \/ \E outcome \in {"error", "no_symbol_column"} :
            /\ Exit1(IF outcome = "error" THEN "Failed to run ticker_sql"
                     ELSE "ticker_sql must return a 'symbol' column")
            /\ UNCHANGED symbol_records
       \/ \* symbol_df.empty: logging.warning, then main returns
          /\ pc' = "exited"
          /\ exit_status' = "success"
          /\ exit_log' = "No symbols found from TICKER_SQL"
          /\ UNCHANGED symbol_records
       \/ \E list \in SymbolLists :
            /\ symbol_records' = list
            /\ pc' = "submit"
            /\ UNCHANGED << exit_status, exit_log >>
    /\ UNCHANGED << env, default_region, store, task, total_inserted,
                    perSymbolResults >>

\* lines 252-256: one future per symbol record
Submit ==
    /\ pc = "submit"
    /\ task' = [ i \in 1..Len(symbol_records) |-> NewTask ]
    /\ total_inserted' = 0
    /\ pc' = "collect"
    /\ UNCHANGED << exit_status, exit_log, env, default_region, symbol_records, store,
                    perSymbolResults >>

(* ---------------------- fetch_and_insert_symbol ------------------------ *)
Running == { i \in Tasks : task[i].pc \in {"delete", "fetch", "load"} }

Completed(i) == task[i].pc \in {"returned", "raised"}

\* the task returns v, having logged what
Return(i, v, what) ==
    task' = [task EXCEPT ![i].pc = "returned", ![i].ret = v, ![i].log = what]

\* a fetch error that leaves the task as an exception
OnFetchError_Raise(i) ==
    task' = [task EXCEPT ![i].pc = "raised", ![i].log = "fetch_error"]

\* lines 199-201: the provider call raised; the task logs it and returns 0
OnFetchError(i) == Return(i, 0, "fetch_error")

\* a pool that takes every worker for idle
IdleWorkers_All == 1..max_workers

\* ThreadPoolExecutor(max_workers): the worker threads not running a task
IdleWorkers ==
    { w \in 1..max_workers : \A j \in Running : task[j].worker # w }

\* a worker that starts a task at the provider call
FirstPhase_Fetch == "fetch"

\* the first statement of the task body after sym and reg: the DELETE
FirstPhase == "delete"

\* an idle worker thread of the pool takes the oldest queued future
Start(i) ==
    /\ pc = "collect"
    /\ task[i].pc = "queued"
    /\ \A j \in Tasks : j < i => task[j].pc # "queued"
    /\ \E w \in IdleWorkers :
         task' = [task EXCEPT ![i].pc = FirstPhase, ![i].worker = w]
    /\ UNCHANGED << pc, exit_status, exit_log, env, default_region, symbol_records,
                    store, total_inserted, perSymbolResults >>

\* a delete whose failure is logged but does not end the task
Delete_FallThrough(i) ==
    /\ task[i].pc = "delete"
    /\ \E ok \in BOOLEAN :
         IF ok
         THEN /\ store' = AfterDelete(store, Sym(i))
              /\ task' = [task EXCEPT ![i].pc = "fetch"]
         ELSE /\ task' = [task EXCEPT ![i].pc = "fetch", ![i].log = "delete_failed"]
              /\ UNCHANGED store
    /\ UNCHANGED << pc, exit_status, exit_log, env, default_region,
                    symbol_records, total_inserted, perSymbolResults >>

\* lines 177-185: the DELETE commits, or it raises and the task returns 0
Delete(i) ==
    /\ task[i].pc = "delete"
    /\ \E ok \in BOOLEAN :
         IF ok
         THEN /\ store' = AfterDelete(store, Sym(i))
              /\ task' = [task EXCEPT ![i].pc = "fetch"]
         ELSE /\ Return(i, 0, "delete_failed")
              /\ UNCHANGED store
    /\ UNCHANGED << pc, exit_status, exit_log, env, default_region, symbol_records,
                    total_inserted, perSymbolResults >>

\* lines 187-232: the provider call, the emptiness check and the column
\* reconciliation, up to the first chunk
Fetch(i) ==
    /\ task[i].pc = "fetch"
    /\ \E resp \in Responses :
         CASE resp.kind = "error" ->
                OnFetchError(i)
           [] resp.kind = "notframe" ->
                \* data_df.empty raises outside every try block
                task' = [task EXCEPT ![i].pc = "raised", ![i].resp = resp]
           [] resp.kind = "empty" ->
                task' = [task EXCEPT ![i].pc = "returned", ![i].ret = 0,
                                     ![i].log = "no_data", ![i].resp = resp]
           [] OTHER ->
                \E uuids \in (IF resp.hasId THEN {"spread"} ELSE UuidStreams) :
                  task' = [task EXCEPT
                             ![i].pc = "load", ![i].resp = resp,
                             ![i].data_df = Reconcile(resp, Sym(i), Reg(i), uuids),
                             ![i].start_idx = 0,
                             ![i].inserted_count = 0]
    /\ UNCHANGED << pc, exit_status, exit_log, env, default_region, symbol_records,
                    store, total_inserted, perSymbolResults >>

\* a failed chunk write that leaves the task as an exception
OnInsertError_Raise(i) ==
    task' = [task EXCEPT ![i].pc = "raised", ![i].log = "insert_failed"]

\* lines 245-247: a chunk write raised; the task logs it and returns the
\* count of the chunks committed so far
OnInsertError(i) == Return(i, task[i].inserted_count, "insert_failed")

\* a failed chunk write that leaves its first row in the table
AfterFailedInsert_FirstRow(b, rows) == b (+) BagOfSeq(SubSeq(rows, 1, 1))

\* executemany raised before conn.commit(): the transaction of the chunk is
\* never committed, none of its rows is in the table
AfterFailedInsert(b, rows) == b

\* a count of the rows attempted: a whole chunk_size per chunk
CountAfterChunk_Attempted(count, data_tuples) == count + chunk_size

\* inserted_count += len(data_tuples)
CountAfterChunk(count, data_tuples) == count + Len(data_tuples)

\* lines 234-249: one pass of the chunk loop; after the last chunk the task
\* returns inserted_count
InsertChunk(i) ==
    /\ task[i].pc = "load"
    /\ LET t == task[i]
           data_tuples == Chunk(t.data_df, t.start_idx)
           next_idx == t.start_idx + chunk_size
       IN  \E ok \in BOOLEAN :
             IF ok
             THEN LET count == CountAfterChunk(t.inserted_count, data_tuples)
                  IN  /\ store' = AfterInsert(store, data_tuples)
                      /\ IF next_idx < Len(t.data_df)
                         THEN task' = [task EXCEPT
                                        ![i].start_idx = next_idx,
                                        ![i].inserted_count = count,
                                        ![i].writes = Append(@, data_tuples)]
                         ELSE task' = [task EXCEPT
                                        ![i].inserted_count = count,
                                        ![i].writes = Append(@, data_tuples),
                                        ![i].pc = "returned",
                                        ![i].ret = count]
             ELSE /\ OnInsertError(i)
                  /\ store' = AfterFailedInsert(store, data_tuples)
    /\ UNCHANGED << pc, exit_status, exit_log, env, default_region, symbol_records,
                    total_inserted, perSymbolResults >>

(* ----------------------- main(): collecting ---------------------------- *)
Collected(i) == \E k \in DOMAIN perSymbolResults : perSymbolResults[k].idx = i

\* a total that is overwritten instead of incremented
NewTotal_Overwrite(total, cnt) == cnt

\* total_inserted += cnt
NewTotal(total, cnt) == total + cnt

\* lines 257-265: as_completed yields a finished future; its count is added
\* to the total, or its exception is logged
Collect(i) ==
    /\ pc = "collect"
    /\ Completed(i)
    /\ ~Collected(i)
    /\ IF task[i].pc = "returned"
       THEN /\ total_inserted' = NewTotal(total_inserted, task[i].ret)
            /\ perSymbolResults' = Append(perSymbolResults,
                 [idx |-> i, symbol |-> Sym(i), cnt |-> task[i].ret, raised |-> FALSE])
       ELSE /\ UNCHANGED total_inserted
            /\ perSymbolResults' = Append(perSymbolResults,
                 [idx |-> i, symbol |-> Sym(i), cnt |-> 0, raised |-> TRUE])
    /\ UNCHANGED << pc, exit_status, exit_log, env, default_region, symbol_records,
                    store, task >>

\* a loop that stops at the first future yielded
AllCollected_First == \E i \in Tasks : Collected(i)

\* the as_completed loop is exhausted once every future has been yielded
AllCollected == \A i \in Tasks : Collected(i)

\* lines 267-268
Finish ==
    /\ pc = "collect"
    /\ AllCollected
    /\ pc' = "done"
    /\ exit_status' = "success"
    /\ UNCHANGED << exit_log, env, default_region, symbol_records, store, task,
                    total_inserted, perSymbolResults >>

Next ==
    \/ BasicChecks
    \/ ConfigureApi
    \/ AcquireToken
    \/ QueryConfig
    \/ QuerySymbols
    \/ Submit
    \/ \E i \in Tasks : Start(i)
    \/ \E i \in Tasks : Delete(i)
    \/ \E i \in Tasks : Fetch(i)
    \/ \E i \in Tasks : InsertChunk(i)
    \/ \E i \in Tasks : Collect(i)
    \/ Finish

Spec == Init /\ [][Next]_vars

\* the threads keep running and every call to the table or to the provider
\* returns or raises: a step that can be taken is eventually taken
FairSpec == Spec /\ WF_vars(Next)

(* ============================== claims ================================= *)
RECURSIVE SumCnt(_)
SumCnt(results) ==
    IF results = << >> THEN 0
    ELSE Head(results).cnt + SumCnt(Tail(results))

RECURSIVE SumLen(_)
SumLen(chunks) ==
    IF chunks = << >> THEN 0
    ELSE Len(Head(chunks)) + SumLen(Tail(chunks))

RECURSIVE Concat(_)
Concat(chunks) ==
    IF chunks = << >> THEN << >>
    ELSE Head(chunks) \o Concat(Tail(chunks))

\* the rows of the table with this symbol inside the window, as a bag
WindowBag(b, sym) == [ r \in WindowRows(b, sym) |-> b[r] ]

\* no other symbol record of the run names the symbol of record i
UniqueSymbol(i) == \A j \in Tasks : j # i => Sym(j) # Sym(i)

\* the task went through the chunk loop and returned from it
ReturnedFromLoad(i) ==
    task[i].pc = "returned" /\ task[i].log \in {"", "insert_failed"}

\* C1: when the run is done, total_inserted is the sum of the counts of the
\* per-symbol outcomes, there is one outcome per symbol record, and each
\* outcome carries the count its task returned (nothing for a task that
\* raised).
C1_TotalConsistency ==
    pc = "done" =>
        /\ total_inserted = SumCnt(perSymbolResults)
        /\ Len(perSymbolResults) = Len(symbol_records)
        /\ \A k \in DOMAIN perSymbolResults :
             LET r == perSymbolResults[k]
             IN  IF task[r.idx].pc = "returned"
                 THEN ~r.raised /\ r.cnt = task[r.idx].ret
                 ELSE r.raised /\ r.cnt = 0

\* a finished run that mixes a task that raised with a task that returned a
\* partial count after a chunk failure
C1_Witness ==
    /\ pc = "done"
    /\ \E i, j \in Tasks :
         /\ task[i].pc = "raised"
         /\ task[j].log = "insert_failed" /\ task[j].ret > 0

\* C2: a fetch error of symbol X leaves the task of a different symbol Y
\* alone: when the run is done, Y's table rows in the window are exactly the
\* chunks Y committed, Y's count is the size of those chunks (all of Y's
\* response when no chunk failed), X contributes 0 and the total is Y's
\* count.
C2_FailureIsolation ==
    pc = "done" =>
        \A x, y \in Tasks :
            ( /\ Sym(x) # Sym(y)
              /\ task[x].log = "fetch_error"
              /\ ReturnedFromLoad(y) )
            => /\ task[x].ret = 0
               /\ WindowBag(store, Sym(y)) = BagOfSeq(Concat(task[y].writes))
               /\ task[y].ret = SumLen(task[y].writes)
               /\ (task[y].log = "" => task[y].ret = task[y].resp.n)
               /\ (Len(symbol_records) = 2 => total_inserted = task[y].ret)

\* X failed to fetch and Y loaded all its rows in the same run
C2_Witness ==
    /\ pc = "done"
    /\ \E x, y \in Tasks :
         /\ Sym(x) # Sym(y)
         /\ task[x].log = "fetch_error"
         /\ task[y].pc = "returned" /\ task[y].log = ""
         /\ task[y].ret = MaxRows
         /\ total_inserted = MaxRows

\* the task loaded every row of a non-empty response without a failure
FullLoad(i) ==
    task[i].pc = "returned" /\ task[i].log = "" /\ task[i].resp.kind = "rows"

\* two refreshes of one symbol in immediate succession: records i < j with
\* the same symbol on a pool of one worker
Successive(i, j) ==
    i < j /\ Sym(i) = Sym(j) /\ max_workers = 1

C4_PartialFailureAccounting ==
    /\ [](\A i \in Tasks :
            ReturnedFromLoad(i) =>
                LET t == task[i]
                IN  /\ t.ret = SumLen(t.writes)
                    /\ \A k \in DOMAIN t.writes :
                         t.writes[k] = Chunk(t.data_df, (k - 1) * chunk_size)
                    /\ t.ret <= Len(t.data_df)
                    /\ t.log = "insert_failed" =>
                         /\ t.ret < Len(t.data_df)
                         /\ t.ret = Len(t.writes) * chunk_size
                    /\ (t.log = "insert_failed" /\ Len(t.writes) = 0) => t.ret = 0
                    /\ (t.log = "insert_failed" /\ Len(t.writes) = 1) =>
                         t.ret = Len(Chunk(t.data_df, 0))
                    /\ UniqueSymbol(i) => WindowCount(store, Sym(i)) = t.ret)
    /\ [][\A i \in Tasks :
            (task[i].pc = "load" /\ task'[i] # task[i]) =>
                BagCardinality(store') - BagCardinality(store)
                    = task'[i].inserted_count - task[i].inserted_count]_vars

\* the second of three chunks failed
C4_Witness ==
    \E i \in Tasks :
        /\ task[i].pc = "returned" /\ task[i].log = "insert_failed"
        /\ Len(task[i].writes) = 1
        /\ Len(task[i].data_df) > 2 * chunk_size
        /\ task[i].ret = chunk_size
        /\ UniqueSymbol(i)

\* C5: a load of n >= 1 rows in which no chunk write failed issued exactly
\* ceil(n / chunk_size) chunk writes; the chunks, put end to end, are the
\* reconciled rows in order; each chunk has at most chunk_size rows and all
\* but the last have exactly chunk_size; the count returned is n.
C5_ChunkAccounting ==
    \A i \in Tasks :
        FullLoad(i) =>
            LET t == task[i]
                n == Len(t.data_df)
            IN  /\ n = t.resp.n /\ n >= 1
                /\ Len(t.writes) = (n + chunk_size - 1) \div chunk_size
                /\ Concat(t.writes) = t.data_df
                /\ \A k \in DOMAIN t.writes :
                     /\ Len(t.writes[k]) <= chunk_size
                     /\ k < Len(t.writes) => Len(t.writes[k]) = chunk_size
                /\ t.ret = n

\* a full load of several chunks whose last chunk is short
C5_Witness ==
    \E i \in Tasks :
        /\ FullLoad(i)
        /\ Len(task[i].writes) >= 2
        /\ Len(task[i].writes[Len(task[i].writes)]) < chunk_size

\* C6: a task whose delete failed has returned 0 without calling the
\* provider and without writing a chunk; the failing delete left the table
\* as it was, and the task takes no further step.
C6_DeleteFailure ==
    /\ [](\A i \in Tasks :
            task[i].log = "delete_failed" =>
                /\ task[i].pc = "returned" /\ task[i].ret = 0
                /\ task[i].resp = NoResponse
                /\ task[i].data_df = << >>
                /\ task[i].writes = << >>)
    /\ [][\A i \in Tasks :
            /\ (task[i].pc = "delete" /\ task'[i].log = "delete_failed") =>
                 store' = store
            /\ task[i].log = "delete_failed" => task'[i] = task[i]]_vars

\* a delete failed over a table that held rows of the symbol in the window,
\* and the run finished with those rows still there
C6_Witness ==
    /\ pc = "done"
    /\ \E i \in Tasks :
         /\ task[i].log = "delete_failed"
         /\ UniqueSymbol(i)
         /\ WindowBag(store, Sym(i)) = WindowBag(StaleStore, Sym(i))
         /\ WindowCount(store, Sym(i)) > 0

\* what the loop in main() has in hand for an outcome: the count, or the
\* fact that future.result() raised
Received(r) == [cnt |-> r.cnt, raised |-> r.raised]

\* C7 as stated: what main() receives for a task whose fetch returned no row
\* differs from what it receives for a task whose fetch raised.
C7_Distinguishable ==
    \A k1, k2 \in DOMAIN perSymbolResults :
        LET r1 == perSymbolResults[k1]
            r2 == perSymbolResults[k2]
        IN  (task[r1.idx].log = "no_data" /\ task[r2.idx].log = "fetch_error")
            => Received(r1) # Received(r2)

\* C7 (amended): a fetch that returns no row makes the task return 0 without
\* an exception, with an informational log line; a fetch error makes it
\* return 0 too, with an error log line written inside the task; main()
\* receives the bare count 0 in both cases.
C7_EmptyVersusError ==
    /\ \A i \in Tasks :
         /\ task[i].log = "no_data" =>
              /\ task[i].pc = "returned" /\ task[i].ret = 0
              /\ task[i].resp.kind = "empty"
         /\ task[i].log = "fetch_error" =>
              task[i].pc = "returned" /\ task[i].ret = 0
         /\ (task[i].pc = "returned" /\ task[i].resp.kind = "empty") =>
              task[i].log = "no_data"
    /\ \A k \in DOMAIN perSymbolResults :
         task[perSymbolResults[k].idx].log \in {"no_data", "fetch_error"} =>
             Received(perSymbolResults[k]) = [cnt |-> 0, raised |-> FALSE]

\* one run collected an empty fetch and a fetch error
C7_Witness ==
    \E k1, k2 \in DOMAIN perSymbolResults :
        /\ task[perSymbolResults[k1].idx].log = "no_data"
        /\ task[perSymbolResults[k2].idx].log = "fetch_error"

\* C8 as stated: no task ends as an exception; main() gets a returned value
\* from every future.
C8_NeverRaises ==
    /\ \A i \in Tasks : task[i].pc # "raised"
    /\ \A k \in DOMAIN perSymbolResults : ~perSymbolResults[k].raised

\* C8 (amended): an error of the delete, of the provider call or of a chunk
\* write is captured inside the task, which returns a count; an error
\* raised outside those try blocks (the emptiness check of a response that
\* is no frame) leaves the task through its future before any chunk is
\* written, and main() catches it there, records the failure, adds nothing
\* to the total and goes on to the other futures.
C8_CapturedErrors ==
    /\ \A i \in Tasks :
         /\ task[i].log \in {"delete_failed", "fetch_error", "insert_failed"} =>
              task[i].pc \in {"returned"}
         /\ task[i].pc = "raised" =>
              /\ task[i].resp.kind = "notframe"
              /\ task[i].log = ""
              /\ task[i].writes = << >>
    /\ \A k \in DOMAIN perSymbolResults :
         perSymbolResults[k].raised <=> task[perSymbolResults[k].idx].pc = "raised"
    /\ pc = "done" => \A i \in Tasks : Collected(i)

\* a run finished although one task raised, and the other task's rows count
C8_Witness ==
    /\ pc = "done"
    /\ \E k \in DOMAIN perSymbolResults : perSymbolResults[k].raised
    /\ \E i \in Tasks : task[i].log = "fetch_error"
    /\ \E i \in Tasks : task[i].pc = "raised"

\* C9: once the futures are submitted the run reaches its end, and it is at
\* its end only when every task has completed (returned or raised) and
\* exactly one outcome has been collected for each symbol record.
C9_Termination ==
    /\ (pc = "collect") ~> (pc = "done")
    /\ [](pc = "done" =>
            /\ Tasks = 1..Len(symbol_records)
            /\ \A i \in Tasks :
                 /\ Completed(i)
                 /\ Cardinality({ k \in DOMAIN perSymbolResults :
                                    perSymbolResults[k].idx = i }) = 1
            /\ Len(perSymbolResults) = Len(symbol_records))

\* a finished run of two tasks, one that raised and one whose delete failed
C9_Witness ==
    /\ pc = "done"
    /\ Len(symbol_records) = 2
    /\ \E i, j \in Tasks :
         task[i].pc = "raised" /\ task[j].log = "delete_failed"

NoSymbols == "No symbols found from TICKER_SQL"

\* C10 as stated: every run that stops during setup is reported as a failed
\* run.
C10_AllReportedAsFailure ==
    pc = "exited" => exit_status = "failure"

\* C10 (amended): a run that stops during setup has submitted no task and
\* has touched neither the table nor the provider; it ends as a failure
\* (exit status 1) for every setup condition except the empty symbol list,
\* for which main() logs a warning and returns normally. Tasks exist only
\* after every setup step has passed.
C10_SetupFailures ==
    /\ [](pc = "exited" =>
            /\ task = << >> /\ perSymbolResults = << >> /\ total_inserted = 0
            /\ store \in InitialStores
            /\ exit_status \in {"failure", "success"}
            /\ exit_status = "failure" <=> exit_log # NoSymbols)
    /\ []((api_key = "" \/ db_server = "" \/ db_name = "") =>
            pc \in {"start", "exited"})
    /\ [](task # << >> =>
            /\ api_key # "" /\ db_server # "" /\ db_name # ""
            /\ default_region # NoValue
            /\ symbol_records # << >>
            /\ \A k \in DOMAIN symbol_records : "symbol" \in DOMAIN symbol_records[k]
            /\ exit_log = "")
    /\ [][pc \notin {"collect", "done"} => store' = store]_vars

\* a run stopped by a missing database setting or by a failed symbol query,
\* over a table that held rows
C10_Witness ==
    /\ pc = "exited"
    /\ store = StaleStore
    /\ \/ exit_log = "DB_SERVER or DB_NAME not set"
       \/ exit_log = "Failed to run ticker_sql"

\* the tasks that have handed rows to the load phase
Loading == { i \in Tasks : task[i].data_df # << >> }

\* the record_no values of the rows of task i, in row order
RecordNos(i) == [ k \in DOMAIN task[i].data_df |-> task[i].data_df[k].record_no ]

\* C11: every row handed to the load phase has a record_no that is a
\* non-negative integer of the 32-bit domain, different from the record_no of
\* every other row of the same task and of every row of the other tasks of
\* the run.
C11_UniqueRecordNo ==
    \A i \in Loading :
        /\ \A k \in DOMAIN task[i].data_df :
             RecordNos(i)[k] \in 0..IdModulus
        /\ \A k1, k2 \in DOMAIN task[i].data_df :
             k1 # k2 => RecordNos(i)[k1] # RecordNos(i)[k2]
        /\ \A j \in Loading \ {i} :
             \A k1 \in DOMAIN task[i].data_df, k2 \in DOMAIN task[j].data_df :
                 RecordNos(i)[k1] # RecordNos(j)[k2]

\* C12 as stated: what main() receives for a task that stopped at a failing
\* chunk differs from what it receives for a task that loaded the same
\* number of rows without a failure.
C12_FailureCarried ==
    \A k1, k2 \in DOMAIN perSymbolResults :
        LET r1 == perSymbolResults[k1]
            r2 == perSymbolResults[k2]
        IN  ( /\ task[r1.idx].log = "insert_failed"
              /\ FullLoad(r2.idx)
              /\ task[r1.idx].ret = task[r2.idx].ret )
            => Received(r1) # Received(r2)

\* C12 (amended): when a chunk write fails the task returns the count of the
\* rows committed before the failing chunk and writes the failure to the log
\* inside the task; main() receives that count as a bare integer, with no
\* failure attached, exactly what it receives for a full load of as many
\* rows.
C12_PartialCountOnly ==
    /\ \A i \in Tasks :
         task[i].log = "insert_failed" =>
             /\ task[i].pc = "returned"
             /\ task[i].ret = SumLen(task[i].writes)
             /\ task[i].ret < Len(task[i].data_df)
    /\ \A k \in DOMAIN perSymbolResults :
         LET r == perSymbolResults[k]
         IN  task[r.idx].log = "insert_failed" =>
                 Received(r) = [cnt |-> SumLen(task[r.idx].writes), raised |-> FALSE]

\* one run collected a partial count of chunk_size rows after a chunk
\* failure and a full load of chunk_size rows
C12_Witness ==
    \E k1, k2 \in DOMAIN perSymbolResults :
        /\ task[perSymbolResults[k1].idx].log = "insert_failed"
        /\ FullLoad(perSymbolResults[k2].idx)
        /\ perSymbolResults[k1].cnt = chunk_size
        /\ perSymbolResults[k2].cnt = chunk_size

\* the moves of a task from one phase to the next
PhaseSteps ==
    { <<"queued", "delete">>, <<"delete", "fetch">>, <<"delete", "returned">>,
      <<"fetch", "load">>, <<"fetch", "returned">>, <<"fetch", "raised">>,
      <<"load", "returned">> }

\* C13: a task moves through its phases in order. It enters the fetch phase
\* only from the delete phase, in the step in which its DELETE commits; the
\* provider is called only in the fetch phase; a chunk is written only in
\* the load phase, after the fetch returned rows, one chunk per step, chunk
\* k+1 being the slice that follows the k chunks already committed. Before
\* the fetch has returned the task has no response and no chunk written.
C13_PhaseOrder ==
    /\ [][\A i \in Tasks :
            /\ task'[i].pc # task[i].pc =>
                 << task[i].pc, task'[i].pc >> \in PhaseSteps
            /\ (task'[i].pc = "fetch" /\ task[i].pc # "fetch") =>
                 /\ task[i].pc = "delete"
                 /\ store' = AfterDelete(store, Sym(i))
                 /\ WindowCount(store', Sym(i)) = 0
            /\ task'[i].resp # task[i].resp => task[i].pc = "fetch"
            /\ task'[i].writes # task[i].writes =>
                 /\ task[i].pc = "load"
                 /\ task[i].resp.kind = "rows"
                 /\ task'[i].writes =
                      Append(task[i].writes,
                             Chunk(task[i].data_df,
                                   Len(task[i].writes) * chunk_size))]_vars
    /\ [](\A i \in Tasks :
            /\ task[i].pc \in {"queued", "delete", "fetch"} =>
                 /\ task[i].resp = NoResponse
                 /\ task[i].data_df = << >>
                 /\ task[i].writes = << >>
            /\ task[i].pc = "load" =>
                 /\ task[i].resp.kind = "rows"
                 /\ Len(task[i].writes) * chunk_size = task[i].start_idx
                 /\ task[i].start_idx < Len(task[i].data_df))

\* a task went through delete, fetch and several chunk writes over a table
\* that held rows of its symbol
C13_Witness ==
    \E i \in Tasks :
        /\ FullLoad(i)
        /\ Len(task[i].writes) >= 2
        /\ Len(task[i].data_df) = MaxRows
        /\ WindowCount(store0, Sym(i)) > 0

\* C14: the tasks in flight never outnumber the workers of the pool; the
\* tasks in flight run on different workers of the pool; a task stays on
\* the worker that started it; and every submitted task is eventually
\* started.
C14_BoundedPool ==
    /\ [](/\ Cardinality(Running) <= max_workers
          /\ \A i \in Running : task[i].worker \in 1..max_workers
          /\ \A i, j \in Running : i # j => task[i].worker # task[j].worker)
    /\ [][\A i \in Tasks :
            task[i].pc # "queued" => task'[i].worker = task[i].worker]_vars
    /\ (pc = "collect") ~> (\A i \in Tasks : task[i].pc # "queued")

\* the pool is full and a submitted task waits for a worker
C14_Witness ==
    /\ Cardinality(Running) = max_workers
    /\ \E i \in Tasks : task[i].pc = "queued"
    /\ \E j \in Tasks : task[j].pc = "load"

\* C15: total_inserted is written only by the collecting loop of main():
\* no step of a worker task changes it, every change adds the count of the
\* one outcome just collected, it never decreases, and after k outcomes it
\* is the sum of those k counts.
C15_SingleWriter ==
    /\ [](total_inserted = SumCnt(perSymbolResults))
    /\ [][total_inserted' >= total_inserted]_vars
    /\ [][task' # task => total_inserted' = total_inserted]_vars
    /\ [][perSymbolResults' # perSymbolResults =>
            /\ task' = task
            /\ Len(perSymbolResults') = Len(perSymbolResults) + 1
            /\ SubSeq(perSymbolResults', 1, Len(perSymbolResults)) = perSymbolResults
            /\ total_inserted' = total_inserted
                                   + perSymbolResults'[Len(perSymbolResults')].cnt]_vars

\* a count has been added to the total while another task is still writing
\* chunks
C15_Witness ==
    /\ pc = "collect"
    /\ total_inserted > 0
    /\ \E i, j \in Tasks :
         /\ Collected(i) /\ task[i].ret > 0
         /\ task[j].pc = "load" /\ task[j].inserted_count > 0

\* C16: a task whose delete succeeded and whose fetch raised or returned an
\* empty frame has returned 0 and written nothing, and, when no other
\* symbol record names its symbol, the table holds no row of the symbol
\* with a date inside the window from the moment it returns.
C16_EmptyWindowAfterFailedFetch ==
    \A i \in Tasks :
        task[i].log \in {"fetch_error", "no_data"} =>
            /\ task[i].pc = "returned" /\ task[i].ret = 0
            /\ task[i].writes = << >>
            /\ UniqueSymbol(i) => WindowCount(store, Sym(i)) = 0

\* the run is done; one fetch raised and another returned an empty frame,
\* both over a table that held rows of their symbols inside the window
C16_Witness ==
    /\ pc = "done"
    /\ \E i, j \in Tasks :
         /\ task[i].log = "fetch_error" /\ task[j].log = "no_data"
         /\ UniqueSymbol(i) /\ UniqueSymbol(j)
         /\ WindowCount(store0, Sym(i)) > 0 /\ WindowCount(store0, Sym(j)) > 0
         /\ WindowCount(store, Sym(i)) = 0 /\ WindowCount(store, Sym(j)) = 0

\* the region the claim gives a task: the region of its symbol record, or
\* the configured default when the record has none
TaskRegion(i) ==
    IF "region" \in DOMAIN symbol_records[i] /\ symbol_records[i].region # NoValue
    THEN symbol_records[i].region ELSE default_region

\* C17 as stated: every row a task has reconciled or inserted carries the
\* symbol of its symbol record, which is the symbol of its delete, and the
\* region of the record or, when the record has none, the default region,
\* whatever the provider supplied.
C17_ForcedSymbolAndRegion ==
    \A i \in Tasks :
        \A k \in DOMAIN task[i].data_df :
            /\ task[i].data_df[k].symbol = Sym(i)
            /\ task[i].data_df[k].region = TaskRegion(i)

\* the task's DELETE has been committed
PastDelete(i) ==
    /\ task[i].pc \in {"fetch", "load", "returned", "raised"}
    /\ task[i].log # "delete_failed"

\* C18: the chunks a task has committed are, in order, a prefix of its
\* reconciled frame whose length is a multiple of chunk_size or the whole
\* frame, and (for a symbol no other record names) they are exactly the
\* rows of the symbol the table holds inside the window; the step in which
\* a chunk fails leaves the table unchanged, and the task takes no step
\* after it.
C18_AtomicChunksPrefix ==
    /\ [](\A i \in Tasks :
            LET t == task[i]
                done == SumLen(t.writes)
            IN  /\ done <= Len(t.data_df)
                /\ Concat(t.writes) = SubSeq(t.data_df, 1, done)
                /\ done % chunk_size = 0 \/ done = Len(t.data_df)
                /\ (UniqueSymbol(i) /\ PastDelete(i)) =>
                     WindowBag(store, Sym(i)) = BagOfSeq(Concat(t.writes)))
    /\ [][\A i \in Tasks :
            /\ (task[i].pc = "load" /\ task'[i].log = "insert_failed") =>
                 /\ store' = store
                 /\ task'[i].writes = task[i].writes
            /\ task[i].log = "insert_failed" => task'[i] = task[i]]_vars

\* the run is done; a task committed its first chunk, its second chunk
\* failed and a third chunk was never attempted
C18_Witness ==
    /\ pc = "done"
    /\ store0 = StaleStore
    /\ \E i \in Tasks :
         /\ UniqueSymbol(i)
         /\ task[i].log = "insert_failed"
         /\ Len(task[i].writes) = 1
         /\ Len(task[i].data_df) > 2 * chunk_size
         /\ WindowCount(store, Sym(i)) = chunk_size

\* number of copies of row r in the table
RowCopies(b, r) == IF r \in DOMAIN b THEN b[r] ELSE 0

\* the symbols the run has a record for
RunSymbols == { symbol_records[k].symbol : k \in DOMAIN symbol_records }

\* C19: a step of the task of symbol S changes no stored row of another
\* symbol and no stored row of S dated outside [date_from, date_to]; its
\* DELETE removes every row of S dated inside the window, both bounds
\* included, and nothing else; the rows its INSERT adds all have symbol S.
\* So a row of a symbol the run does not name, or dated outside the
\* window, is in the table as often as at the start.
C19_FrameEffect ==
    /\ [][\A i \in Tasks :
            task'[i] # task[i] =>
              /\ \A r \in DOMAIN store :
                   (r.symbol # Sym(i) \/ ~InWindow(r)) =>
                       RowCopies(store', r) = RowCopies(store, r)
              /\ \A r \in DOMAIN store' :
                   RowCopies(store', r) > RowCopies(store, r) => r.symbol = Sym(i)
              /\ (task[i].pc = "delete" /\ task'[i].pc = "fetch") =>
                   /\ WindowCount(store', Sym(i)) = 0
                   /\ \A r \in DOMAIN store' : store'[r] = store[r]]_vars
    /\ [](\A r \in DOMAIN store0 \cup DOMAIN store :
            (r.symbol \notin RunSymbols \/ ~InWindow(r)) =>
                RowCopies(store, r) = RowCopies(store0, r))

\* the run is done; the task of AAPL replaced the rows of the window, the
\* rows of AAPL dated on both sides of the window and the row of IBM
\* inside the window are still there, the rows of AAPL dated on the two
\* bounds of the window are gone
C19_Witness ==
    /\ pc = "done"
    /\ store0 = StaleStore
    /\ \E i \in Tasks : Sym(i) = "AAPL" /\ FullLoad(i)
    /\ StaleRow("AAPL", date_from - 1, 900) \in DOMAIN store
    /\ StaleRow("AAPL", date_to + 1, 903) \in DOMAIN store
    /\ StaleRow("IBM", 1, 905) \in DOMAIN store
    /\ StaleRow("AAPL", date_from, 901) \notin DOMAIN store
    /\ StaleRow("AAPL", date_to, 902) \notin DOMAIN store

\* the rows of the table with this symbol, as a bag
SymbolRows(b, sym) ==
    [ r \in { x \in DOMAIN b : x.symbol = sym } |-> b[r] ]

\* the rows of the table with this symbol dated outside the window
OutsideRows(b, sym) ==
    [ r \in { x \in DOMAIN b : x.symbol = sym /\ ~InWindow(x) } |-> b[r] ]

\* what is fixed for the task of one symbol: its record, the response of
\* the provider (task[i].resp) and the call to the table that fails, if
\* any (task[i].log, and for a failed insert the number of chunks committed
\* before it). The number of rows these alone let the task commit:
PlannedCount(i) ==
    LET t == task[i]
    IN  IF t.resp.kind # "rows" THEN 0
        ELSE IF t.log = "insert_failed" THEN Len(t.writes) * chunk_size
        ELSE t.resp.n

\* the rows of the symbol these alone leave in the table
PlannedRows(i) ==
    LET t == task[i]
        kept == IF t.log = "delete_failed" THEN SymbolRows(store0, Sym(i))
                ELSE OutsideRows(store0, Sym(i))
    IN  kept (+) BagOfSeq(SubSeq(t.data_df, 1, PlannedCount(i)))

RECURSIVE SumPlanned(_)
SumPlanned(S) ==
    IF S = {} THEN 0
    ELSE LET i == CHOOSE x \in S : TRUE
         IN  (IF task[i].pc = "returned" THEN PlannedCount(i) ELSE 0)
               + SumPlanned(S \ {i})

\* C20: in a run whose records have pairwise distinct symbols, whatever the
\* interleaving of the tasks and the order in which they are collected,
\* once a task has completed the rows of its symbol in the table are the
\* rows its own record, response and failing call determine (the frame
\* being the reconciled response for some draw of generated identifiers),
\* the count it returns is the count they determine, and when the run is
\* done the total is the sum of these counts.
C20_InterleavingIndependence ==
    (\A i \in Tasks : UniqueSymbol(i)) =>
        /\ \A i \in Tasks :
             Completed(i) =>
               /\ task[i].pc = "returned" => task[i].ret = PlannedCount(i)
               /\ SymbolRows(store, Sym(i)) = PlannedRows(i)
               /\ \E uuids \in UuidStreams :
                    task[i].data_df =
                      IF task[i].resp.kind = "rows"
                      THEN Reconcile(task[i].resp, Sym(i), Reg(i), uuids)
                      ELSE << >>
        /\ pc = "done" => total_inserted = SumPlanned(Tasks)

\* the run is done over a table with old rows; the second task was
\* collected before the first, one loaded all its rows and the other
\* stopped at a failed chunk after committing one
C20_Witness ==
    /\ pc = "done"
    /\ store0 = StaleStore
    /\ Len(perSymbolResults) = 2
    /\ perSymbolResults[1].idx = 2
    /\ \A i \in Tasks : UniqueSymbol(i)
    /\ \E i, j \in Tasks :
         /\ FullLoad(i) /\ task[i].ret > chunk_size
         /\ task[j].log = "insert_failed" /\ task[j].ret > 0

====
